---- MODULE Spec2Model ----
(***************************************************************************)
(* A model of axon-tools' proof verification:                              *)
(*   verify_proof      (axon-tools/src/proof.rs) with the canonical        *)
(*                     encoders of Proposal and Vote (types.rs), and       *)
(*   verify_trie_proof (axon-tools/src/proof.rs).                          *)
(*                                                                         *)
(* Byte strings are sequences of 0..255.  The cryptographic primitives of  *)
(* the libraries the code calls are modelled symbolically:                 *)
(*   - keccak_256 is a collision-free hash: the digest of b is the         *)
(*     sequence <<256>> \o b, which stands for 32 bytes;                   *)
(*   - a BLS public key is the point named by the first byte of its 48     *)
(*     byte encoding, an aggregate key is the multiset of the points       *)
(*     added (a sorted sequence), and a signature verifies exactly when it *)
(*     was made by that multiset of signers over that message under that   *)
(*     domain separation tag.                                              *)
(***************************************************************************)
EXTENDS Integers, Sequences, FiniteSets

VARIABLES
    block,                \* verify_proof argument: AxonBlock
    previous_state_root,  \* verify_proof argument: H256
    validator_list,       \* verify_proof argument: &mut [Validator]
    proof,                \* verify_proof argument: Proof
    pc,                   \* position inside verify_proof
    raw_proposal,         \* local: Proposal{..}.rlp_bytes()
    hash_vote,            \* local: keccak_256(rlp::encode(&vote))
    pks,                  \* local: the keys extract_pks returned
    decoded,              \* positions whose pub_key extract_pks decoded
    c_pk,                 \* local: the aggregate public key
    sig,                  \* local: the decoded signature
    result,               \* the value verify_proof returned
    passed,               \* the checks passed so far, in order
    trie_in,              \* verify_trie_proof arguments
    trie_pc,              \* position inside verify_trie_proof
    trie_lib,             \* what cita_trie::verify_proof returned
    trie_result,          \* the value verify_trie_proof returned
    vote_in,              \* test_vote_codec: the Vote
    vote_pc,              \* position inside test_vote_codec
    vote_raw,             \* rlp::encode(&vote)
    vote_out,             \* rlp::decode(&raw)
    hex_in,               \* the value given to serialize_uint
    hex_pc,               \* position inside the hex round trip
    hex_str,              \* the string given to deserialize_hex_u64
    hex_out               \* what deserialize_hex_u64 returned

vars == <<block, previous_state_root, validator_list, proof, pc, raw_proposal,
          hash_vote, pks, decoded, c_pk, sig, result, passed,
          trie_in, trie_pc, trie_lib, trie_result,
          vote_in, vote_pc, vote_raw, vote_out, hex_in, hex_pc, hex_str, hex_out>>

proofVars == <<block, previous_state_root, validator_list, proof, pc,
               raw_proposal, hash_vote, pks, decoded, c_pk, sig, result, passed>>

trieVars == <<trie_in, trie_pc, trie_lib, trie_result>>

voteVars == <<vote_in, vote_pc, vote_raw, vote_out>>

hexVars == <<hex_in, hex_pc, hex_str, hex_out>>

-----------------------------------------------------------------------------
(* Bounds of the model.                                                    *)

\* Number of distinct well-formed validator keys the inputs draw from.
NumValidKeys == 3

\* Longest validator list the inputs draw from.
MaxValidators == 4

-----------------------------------------------------------------------------
(* Byte strings and fixed-size hashes.                                     *)

H256Len == 32
H160Len == 20
PubKeyLen == 48
SignatureLen == 96

H256Of(x) == [i \in 1..H256Len |-> x]
H160Of(x) == [i \in 1..H160Len |-> x]

Min(a, b) == IF a < b THEN a ELSE b

Range(s) == {s[i] : i \in DOMAIN s}

\* A byte string with the number of bytes it stands for.
Sized(b, n) == [b |-> b, n |-> n]

Cat(x, y) == Sized(x.b \o y.b, x.n + y.n)

RECURSIVE Concat(_)
Concat(items) ==
    IF items = <<>> THEN Sized(<<>>, 0)
    ELSE Cat(Head(items), Concat(Tail(items)))

\* keccak_256: a collision-free hash with a 32-byte output.
\* 256 is the marker of a digest; it is no byte, so no input string is one.
keccak_256(bytes) == <<256>> \o bytes

IsDigest(b) == b # <<>> /\ b[1] = 256

\* The number of bytes a string stands for.
BytesLen(b) == IF IsDigest(b) THEN H256Len ELSE Len(b)

-----------------------------------------------------------------------------
(* RLP, as the rlp crate encodes the types the Proposal and the Vote hold. *)

\* to_be_bytes with the leading zero bytes dropped.
RECURSIVE BeBytes(_)
BeBytes(n) == IF n = 0 THEN <<>> ELSE BeBytes(n \div 256) \o <<n % 256>>

\* Encoder::encode_value: a string of n bytes.
EncodeValue(b, n) ==
    IF n = 0 THEN Sized(<<128>>, 1)
    ELSE IF n = 1 /\ b[1] < 128 THEN Sized(b, 1)
    ELSE IF n <= 55 THEN Sized(<<128 + n>> \o b, 1 + n)
    ELSE LET l == BeBytes(n)
         IN  Sized(<<183 + Len(l)>> \o l \o b, 1 + Len(l) + n)

\* RlpStream::begin_list(..) closed over its items.
EncodeList(items) ==
    LET p == Concat(items)
    IN  IF p.n <= 55 THEN Sized(<<192 + p.n>> \o p.b, 1 + p.n)
        ELSE LET l == BeBytes(p.n)
             IN  Sized(<<247 + Len(l)>> \o l \o p.b, 1 + Len(l) + p.n)

RlpUint(x) == LET b == BeBytes(x) IN EncodeValue(b, Len(b))
RlpBytes(b) == EncodeValue(b, BytesLen(b))
RlpH256(h) == EncodeValue(h, H256Len)
RlpH160(a) == EncodeValue(a, H160Len)

RlpEach(Enc(_), s) == [i \in DOMAIN s |-> Enc(s[i])]

-----------------------------------------------------------------------------
(* The types of types.rs and their encoders.                               *)

\* U256: hi is the upper 192 bits and lo the lowest 64-bit word.
U256(hi, lo) == [hi |-> hi, lo |-> lo]

\* U256::fits_word / U256::as_u64 (as_u64 panics when the value does not fit).
FitsWord(v) == v.hi = 0

as_u64(v) == v.lo

\* impl From<BlockVersion> for u8
BlockVersionToU8(ver) == CASE ver = "V0" -> 0

\* impl Encodable for BlockVersion
RlpBlockVersion(ver) == EncodeList(<<RlpUint(BlockVersionToU8(ver))>>)

\* derive(RlpEncodable) for ExtraData
RlpExtraData(e) == EncodeList(<<RlpBytes(e.inner)>>)

\* The DST of proof.rs.
DST == "BLS_SIG_BLS12381G2_XMD:SHA-256_SSWU_RONUL"

\* The bytes of a signature.  A well-formed one (wf) is the compressed point
\* of the aggregate signature made by the multiset `signers` (a sorted
\* sequence of points) over `msg` under the tag `dst`; any other string of
\* bytes is `raw`.
AggSignature(signers, msg, dst) ==
    [wf |-> TRUE, signers |-> signers, msg |-> msg, dst |-> dst, raw |-> <<>>]

RawSignature(raw) ==
    [wf |-> FALSE, signers |-> <<>>, msg |-> <<>>, dst |-> "", raw |-> raw]

\* 257 and 258 delimit the parts of a well-formed signature point.
RlpSignatureBytes(s) ==
    IF s.wf
    THEN EncodeValue(<<257>> \o s.signers \o <<IF s.dst = DST THEN 1 ELSE 0, 258>>
                     \o s.msg, SignatureLen)
    ELSE RlpBytes(s.raw)

\* derive(RlpEncodable) for Proof
RlpProof(p) ==
    EncodeList(<<RlpUint(p.number), RlpUint(p.round), RlpH256(p.block_hash),
                 RlpSignatureBytes(p.signature), RlpBytes(p.bitmap)>>)

\* impl Encodable for Proposal: the 13 items of the list.
ProposalItems(p) ==
    << RlpBlockVersion(p.version),
       RlpH256(p.prev_hash),
       RlpH160(p.proposer),
       RlpH256(p.prev_state_root),
       RlpH256(p.transactions_root),
       RlpH256(p.signed_txs_hash),
       RlpUint(p.timestamp),
       RlpUint(p.number),
       RlpUint(as_u64(p.gas_limit)),
       EncodeList(RlpEach(RlpExtraData, p.extra_data)),
       RlpProof(p.proof),
       RlpUint(p.call_system_script_count),
       EncodeList(RlpEach(RlpH256, p.tx_hashes)) >>

\* Proposal::rlp_bytes: the bytes, or the panic of gas_limit.as_u64().
rlp_bytes(p) ==
    IF FitsWord(p.gas_limit)
    THEN [panicked |-> FALSE, bytes |-> EncodeList(ProposalItems(p)).b]
    ELSE [panicked |-> TRUE, bytes |-> <<>>]

\* Mutant of VoteItems: the round is not encoded.
VoteItemsNoRound(v) ==
    << RlpUint(v.height),
       RlpUint(v.vote_type),
       RlpBytes(v.block_hash) >>

\* Mutant of VoteItems: the round is encoded before the height.
VoteItemsRoundFirst(v) ==
    << RlpUint(v.round),
       RlpUint(v.height),
       RlpUint(v.vote_type),
       RlpBytes(v.block_hash) >>

\* impl Encodable for Vote: the 4 items of the list.
VoteItems(v) ==
    << RlpUint(v.height),
       RlpUint(v.round),
       RlpUint(v.vote_type),
       RlpBytes(v.block_hash) >>

RlpVote(v) == EncodeList(VoteItems(v))

-----------------------------------------------------------------------------
(* The library calls of verify_proof and extract_pks.                      *)

\* The points the model names.  1..NumValidKeys are keys of the group;
\* OffGroupPoint decodes (it is on the curve) but is not in the group;
\* UndecodablePoint names bytes that are no point at all.
ValidPoints == 1..NumValidKeys
OffGroupPoint == 200
UndecodablePoint == 0

PubKeyBytes(k) == [i \in 1..PubKeyLen |-> k]

\* PublicKey::from_bytes: whether the bytes decode, and the point they name.
PkDecodes(b) == Len(b) = PubKeyLen /\ b[1] \in ValidPoints \cup {OffGroupPoint}

PkPoint(b) == b[1]

\* Mutant of BitAt: the least significant bit of each byte comes first.
BitAtLsbFirst(bitmap, i) == (bitmap[(i \div 8) + 1] \div (2 ^ (i % 8))) % 2 = 1

\* BitVec::from_bytes: bit i (from 0) is bit 7 - i % 8 of byte i / 8.
BitAt(bitmap, i) == (bitmap[(i \div 8) + 1] \div (2 ^ (7 - (i % 8)))) % 2 = 1

BitVecFromBytes(bitmap) == [i \in 1..(8 * Len(bitmap)) |-> BitAt(bitmap, i - 1)]

\* Mutant of NotEnough: exactly two thirds is accepted.
NotEnoughStrict(count, n) == count * 3 < n * 2

\* Mutant of NotEnough: a simple majority is accepted.
NotEnoughHalf(count, n) == count * 2 <= n

\* Mutant of NotEnough: an empty validator list is not rejected.
NotEnoughUnlessEmpty(count, n) == n # 0 /\ count * 3 <= n * 2

\* The quorum test of extract_pks: count * 3 <= validator_list.len() * 2
\* rejects.
NotEnough(count, n) == count * 3 <= n * 2

\* The sum of the vote weights of the validators at the positions S.
RECURSIVE VoteWeightOf(_, _)
VoteWeightOf(S, vl) ==
    IF S = {} THEN 0
    ELSE LET i == CHOOSE j \in S : TRUE
         IN  vl[i].vote_weight + VoteWeightOf(S \ {i}, vl)

\* Mutant of QuorumTested: the quorum is taken by vote weight.
QuorumTestedByWeight(r, vl) ==
    IF r.err # "None" THEN r
    ELSE IF NotEnough(VoteWeightOf(r.decoded, vl), VoteWeightOf(DOMAIN vl, vl))
    THEN [r EXCEPT !.err = "NotEnoughSignatures"]
    ELSE r

\* The result of extract_pks' loop with the quorum test applied.
QuorumTested(r, vl) ==
    IF r.err # "None" THEN r
    ELSE IF NotEnough(Len(r.pks), Len(vl))
    THEN [r EXCEPT !.err = "NotEnoughSignatures"]
    ELSE r

\* Mutant of ExtractLoop: a key that does not decode is skipped.
RECURSIVE ExtractLoopSkipBad(_, _, _, _, _)
ExtractLoopSkipBad(vl, bit_map, i, acc, seen) ==
    IF i > Min(Len(vl), Len(bit_map))
    THEN [err |-> "None", pks |-> acc, decoded |-> seen]
    ELSE IF ~bit_map[i]
    THEN ExtractLoopSkipBad(vl, bit_map, i + 1, acc, seen)
    ELSE IF ~PkDecodes(vl[i].pub_key)
    THEN ExtractLoopSkipBad(vl, bit_map, i + 1, acc, seen \cup {i})
    ELSE ExtractLoopSkipBad(vl, bit_map, i + 1,
                            Append(acc, PkPoint(vl[i].pub_key)), seen \cup {i})

\* The loop of extract_pks from position i (from 1) on: zip stops at the
\* shorter of the list and the bit vector; a set bit decodes the key and `?`
\* returns its error at once.
RECURSIVE ExtractLoop(_, _, _, _, _)
ExtractLoop(vl, bit_map, i, acc, seen) ==
    IF i > Min(Len(vl), Len(bit_map))
    THEN [err |-> "None", pks |-> acc, decoded |-> seen]
    ELSE IF ~bit_map[i]
    THEN ExtractLoop(vl, bit_map, i + 1, acc, seen)
    ELSE IF ~PkDecodes(vl[i].pub_key)
    THEN [err |-> "BLST_BAD_ENCODING", pks |-> acc, decoded |-> seen \cup {i}]
    ELSE ExtractLoop(vl, bit_map, i + 1,
                     Append(acc, PkPoint(vl[i].pub_key)), seen \cup {i})

\* Mutant of extract_pks: the quorum test is left out.
extract_pks_NoQuorum(p, vl) ==
    ExtractLoop(vl, BitVecFromBytes(p.bitmap), 1, <<>>, {})

\* extract_pks: the keys, or the error.
extract_pks(p, vl) ==
    QuorumTested(ExtractLoop(vl, BitVecFromBytes(p.bitmap), 1, <<>>, {}), vl)

\* A multiset of points as a sorted sequence.
RECURSIVE SortPoints(_)
SortPoints(s) ==
    IF s = <<>> THEN <<>>
    ELSE LET m == CHOOSE i \in DOMAIN s : \A j \in DOMAIN s : s[i] <= s[j]
         IN  <<s[m]>> \o SortPoints(SubSeq(s, 1, m - 1) \o SubSeq(s, m + 1, Len(s)))

\* AggregatePublicKey::aggregate(&pks, true): the sum of the points, or the
\* error of an empty list or of a point that fails validation.
Aggregate(keys) ==
    IF keys = <<>> THEN [err |-> "BLST_AGGR_TYPE_MISMATCH", key |-> <<>>]
    ELSE IF \E i \in DOMAIN keys : keys[i] \notin ValidPoints
    THEN [err |-> "BLST_POINT_NOT_IN_GROUP", key |-> <<>>]
    ELSE [err |-> "None", key |-> SortPoints(keys)]

\* Signature::from_bytes
SigDecodes(bytes) == bytes.wf

\* Mutant of SigVerify: a failed verification reads as a missing quorum.
SigVerifyConflated(s, msg, dst, pk) ==
    IF s.signers = pk /\ s.msg = msg /\ s.dst = dst
    THEN "BLST_SUCCESS" ELSE "NotEnoughSignatures"

\* Signature::verify(true, msg, dst, &[], pk, true)
SigVerify(s, msg, dst, pk) ==
    IF s.signers = pk /\ s.msg = msg /\ s.dst = dst
    THEN "BLST_SUCCESS" ELSE "BLST_VERIFY_FAIL"

\* Mutant of BlockHashMismatch: the hash check is left out.
BlockHashMismatchNever(raw, p) == FALSE

\* The comparison of proof.rs 45.
BlockHashMismatch(raw, p) == keccak_256(raw) # p.block_hash

\* The Proposal verify_proof rebuilds from the block and the caller's root.
ProposalOf(b, psr) ==
    [ version                  |-> "V0",
      prev_hash                |-> b.header.prev_hash,
      proposer                 |-> b.header.proposer,
      prev_state_root          |-> psr,
      transactions_root        |-> b.header.transactions_root,
      signed_txs_hash          |-> b.header.signed_txs_hash,
      timestamp                |-> b.header.timestamp,
      number                   |-> b.header.number,
      gas_limit                |-> b.header.gas_limit,
      extra_data               |-> b.header.extra_data,
      base_fee_per_gas         |-> b.header.base_fee_per_gas,
      proof                    |-> b.header.proof,
      chain_id                 |-> b.header.chain_id,
      call_system_script_count |-> b.header.call_system_script_count,
      tx_hashes                |-> b.tx_hashes ]

\* Mutant of VoteOf: the round of the proof is not used.
VoteOfRoundZero(b, p) ==
    [ height     |-> p.number,
      round      |-> 0,
      vote_type  |-> 2,
      block_hash |-> p.block_hash ]

\* The Vote verify_proof rebuilds.
VoteOf(b, p) ==
    [ height     |-> p.number,
      round      |-> p.round,
      vote_type  |-> 2,
      block_hash |-> p.block_hash ]

VoteDigest(v) == keccak_256(RlpVote(v).b)

\* verify_proof as a function of its arguments: the value it returns
\* ("Panic" when the encoder panics).
VerifyProofResult(b, psr, vl, p) ==
    LET raw == rlp_bytes(ProposalOf(b, psr))
    IN  IF raw.panicked THEN "Panic"
        ELSE IF BlockHashMismatch(raw.bytes, p) THEN "InvalidProofBlockHash"
        ELSE LET ex == extract_pks(p, vl)
             IN  IF ex.err # "None" THEN ex.err
                 ELSE LET ag == Aggregate(ex.pks)
                      IN  IF ag.err # "None" THEN ag.err
                          ELSE IF ~SigDecodes(p.signature) THEN "BLST_BAD_ENCODING"
                          ELSE LET res == SigVerify(p.signature,
                                                    VoteDigest(VoteOf(b, p)),
                                                    DST, ag.key)
                               IN  IF res = "BLST_SUCCESS" THEN "Ok" ELSE res

-----------------------------------------------------------------------------
(* The inputs the model draws from.                                        *)

Validator(k) == [pub_key |-> PubKeyBytes(k), propose_weight |-> 1, vote_weight |-> 1]

BaseHeader ==
    [ version                  |-> "V0",
      prev_hash                |-> H256Of(1),
      proposer                 |-> H160Of(2),
      state_root               |-> H256Of(3),
      transactions_root        |-> H256Of(4),
      signed_txs_hash          |-> H256Of(5),
      receipts_root            |-> H256Of(6),
      log_bloom                |-> <<>>,
      timestamp                |-> 1700,
      number                   |-> 100,
      gas_used                 |-> U256(0, 21000),
      gas_limit                |-> U256(0, 30000),
      extra_data               |-> << [inner |-> <<1, 2, 3>>] >>,
      base_fee_per_gas         |-> U256(0, 7),
      proof                    |-> [ number     |-> 99,
                                     round      |-> 0,
                                     block_hash |-> H256Of(8),
                                     signature  |-> RawSignature(<<9, 9>>),
                                     bitmap     |-> <<224>> ],
      call_system_script_count |-> 1,
      chain_id                 |-> 1000 ]

BaseBlock == [header |-> BaseHeader, tx_hashes |-> <<H256Of(10)>>]

BaseRoot == H256Of(11)

\* The fields the block hash is said to commit to.
CommittedFields ==
    { "prev_hash", "proposer", "prev_state_root", "transactions_root",
      "signed_txs_hash", "timestamp", "number", "gas_limit", "extra_data",
      "base_fee_per_gas", "proof", "chain_id", "call_system_script_count",
      "tx_hashes" }

\* A second value for a field: x when the field holds y, else y.
Other(v, x, y) == IF v = y THEN x ELSE y

\* The block with one field changed and every other field kept.
TamperBlock(b, f) ==
    LET h == b.header
    IN  CASE f = "prev_hash" ->
               [b EXCEPT !.header.prev_hash = Other(h.prev_hash, H256Of(1), H256Of(21))]
          [] f = "proposer" ->
               [b EXCEPT !.header.proposer = Other(h.proposer, H160Of(2), H160Of(22))]
          [] f = "transactions_root" ->
               [b EXCEPT !.header.transactions_root =
                             Other(h.transactions_root, H256Of(4), H256Of(24))]
          [] f = "signed_txs_hash" ->
               [b EXCEPT !.header.signed_txs_hash =
                             Other(h.signed_txs_hash, H256Of(5), H256Of(25))]
          [] f = "timestamp" ->
               [b EXCEPT !.header.timestamp = Other(h.timestamp, 1700, 1701)]
          [] f = "number" ->
               [b EXCEPT !.header.number = Other(h.number, 100, 101)]
          [] f = "gas_limit" ->
               [b EXCEPT !.header.gas_limit =
                             Other(h.gas_limit, U256(0, 30000), U256(0, 30001))]
          [] f = "gas_limit_high" ->
               [b EXCEPT !.header.gas_limit =
                             Other(h.gas_limit, U256(0, 30000), U256(1, 30000))]
          [] f = "extra_data" ->
               [b EXCEPT !.header.extra_data =
                             Other(h.extra_data, << [inner |-> <<1, 2, 3>>] >>, <<>>)]
          [] f = "base_fee_per_gas" ->
               [b EXCEPT !.header.base_fee_per_gas =
                             Other(h.base_fee_per_gas, U256(0, 7), U256(0, 8))]
          [] f = "proof" ->
               [b EXCEPT !.header.proof.round = Other(h.proof.round, 0, 1)]
          [] f = "chain_id" ->
               [b EXCEPT !.header.chain_id = Other(h.chain_id, 1000, 1001)]
          [] f = "call_system_script_count" ->
               [b EXCEPT !.header.call_system_script_count =
                             Other(h.call_system_script_count, 1, 0)]
          [] f = "tx_hashes" ->
               [b EXCEPT !.tx_hashes = Other(b.tx_hashes, <<H256Of(10)>>, <<>>)]
          [] OTHER -> b

TamperRoot(psr, f) ==
    IF f = "prev_state_root" THEN Other(psr, BaseRoot, H256Of(31)) ELSE psr

Blocks == {BaseBlock} \cup {TamperBlock(BaseBlock, f) : f \in CommittedFields \cup {"gas_limit_high"}}

Roots == {BaseRoot, TamperRoot(BaseRoot, "prev_state_root")}

BlockHashOf(b, psr) == keccak_256(rlp_bytes(ProposalOf(b, psr)).bytes)

BaseDigest == BlockHashOf(BaseBlock, BaseRoot)

TsBlock == TamperBlock(BaseBlock, "timestamp")

TsDigest == BlockHashOf(TsBlock, BaseRoot)

BlockHashes == {BaseDigest, TsDigest, H256Of(0)}

Numbers == {100, 101}

Rounds == {0, 1}

\* The digest a signer of the vote (height, round, precommit, block_hash) signs.
SignedDigest(h, r, bh) ==
    VoteDigest([height |-> h, round |-> r, vote_type |-> 2, block_hash |-> bh])

BaseList == [i \in 1..3 |-> Validator(i)] \o <<Validator(UndecodablePoint)>>

BaseSigners == <<1, 2, 3>>

BaseSignature == AggSignature(BaseSigners, SignedDigest(100, 0, BaseDigest), DST)

MalformedSignature == RawSignature(<<1>>)

ListPoints == ValidPoints \cup {UndecodablePoint, OffGroupPoint}

\* The lists of at most MaxValidators validators with distinct keys, at most
\* one of which is not a key of the group.
ValidatorLists ==
    UNION { { [i \in 1..n |-> Validator(f[i])] :
              f \in { g \in [1..n -> ListPoints] :
                        /\ \A i, j \in 1..n : i # j => g[i] # g[j]
                        /\ Cardinality({i \in 1..n : g[i] \notin ValidPoints}) <= 1 } } :
            n \in 0..MaxValidators }

Bitmaps == {<<>>} \cup {<<x>> : x \in {0, 128, 192, 224, 240, 96, 160, 208, 176, 112, 255}}

PrefixSignatures ==
    { AggSignature([i \in 1..j |-> i], SignedDigest(100, 0, BaseDigest), DST) :
      j \in 1..NumValidKeys }

Input(b, psr, vl, n, r, bh, sg, bm) ==
    [ block |-> b, previous_state_root |-> psr, validator_list |-> vl,
      proof |-> [number |-> n, round |-> r, block_hash |-> bh,
                 signature |-> sg, bitmap |-> bm] ]

\* Every block and root against every claimed hash.
HashInputs ==
    { Input(b, psr, vl, 100, 0, bh, sg, bm) :
      b \in Blocks, psr \in Roots, bh \in BlockHashes,
      vl \in {BaseList, <<>>}, bm \in {<<224>>, <<>>},
      sg \in {BaseSignature, MalformedSignature} }

\* Every validator list against every bitmap.
QuorumInputs ==
    { Input(BaseBlock, BaseRoot, vl, 100, 0, BaseDigest, sg, bm) :
      vl \in ValidatorLists, bm \in Bitmaps,
      sg \in PrefixSignatures \cup {MalformedSignature} }

\* Every vote the proof can name against every vote a signature can cover.
VoteInputs ==
    { Input(b, BaseRoot, BaseList, n, r, bh, sg, <<224>>) :
      b \in {BaseBlock, TsBlock}, n \in Numbers, r \in Rounds,
      bh \in {BaseDigest, TsDigest},
      sg \in { AggSignature(s, SignedDigest(h, sr, sbh), d) :
               s \in {BaseSigners, <<1, 2>>}, h \in Numbers, sr \in Rounds,
               sbh \in {BaseDigest, TsDigest}, d \in {DST, "OTHER_DST"} } }

Inputs == HashInputs \cup QuorumInputs \cup VoteInputs

-----------------------------------------------------------------------------
(* verify_proof, step by step.                                             *)

NoBytes == [panicked |-> FALSE, bytes |-> <<>>]

TrieIdle ==
    /\ trie_in = [root |-> <<>>, key |-> <<>>, proof |-> <<>>]
    /\ trie_pc = "Idle"
    /\ trie_lib = [kind |-> "None", value |-> <<>>]
    /\ trie_result = "None"

NoVote == [height |-> 0, round |-> 0, vote_type |-> 0, block_hash |-> <<>>]

VoteIdle ==
    /\ vote_in = NoVote
    /\ vote_pc = "Idle"
    /\ vote_raw = <<>>
    /\ vote_out = [ok |-> FALSE, vote |-> NoVote]

HexIdle ==
    /\ hex_in = [given |-> FALSE, value |-> <<>>]
    /\ hex_pc = "Idle"
    /\ hex_str = <<>>
    /\ hex_out = [ok |-> FALSE, value |-> <<>>]

Init ==
    /\ \E in \in Inputs :
          /\ block = in.block
          /\ previous_state_root = in.previous_state_root
          /\ validator_list = in.validator_list
          /\ proof = in.proof
    /\ pc = "Start"
    /\ raw_proposal = NoBytes
    /\ hash_vote = <<>>
    /\ pks = <<>>
    /\ decoded = {}
    /\ c_pk = <<>>
    /\ sig = RawSignature(<<>>)
    /\ result = "None"
    /\ passed = <<>>
    /\ TrieIdle
    /\ VoteIdle
    /\ HexIdle

Return(r) == pc' = "Done" /\ result' = r

\* proof.rs 26-43: the Proposal is rebuilt and encoded.
BuildProposal ==
    /\ pc = "Start"
    /\ raw_proposal' = rlp_bytes(ProposalOf(block, previous_state_root))
    /\ IF raw_proposal'.panicked
       THEN Return("Panic")
       ELSE pc' = "Encoded" /\ result' = result
    /\ UNCHANGED <<block, previous_state_root, validator_list, proof, hash_vote,
                   pks, decoded, c_pk, sig, passed, trieVars, voteVars, hexVars>>

\* proof.rs 45-47: the hash check.
CheckBlockHash ==
    /\ pc = "Encoded"
    /\ IF BlockHashMismatch(raw_proposal.bytes, proof)
       THEN Return("InvalidProofBlockHash") /\ passed' = passed
       ELSE pc' = "HashChecked" /\ result' = result /\ passed' = Append(passed, "hash")
    /\ UNCHANGED <<block, previous_state_root, validator_list, proof, raw_proposal,
                   hash_vote, pks, decoded, c_pk, sig, trieVars, voteVars, hexVars>>

\* proof.rs 49-57: the Vote is rebuilt and hashed.
BuildVote ==
    /\ pc = "HashChecked"
    /\ hash_vote' = VoteDigest(VoteOf(block, proof))
    /\ pc' = "VoteHashed"
    /\ UNCHANGED <<block, previous_state_root, validator_list, proof, raw_proposal,
                   pks, decoded, c_pk, sig, result, passed, trieVars, voteVars, hexVars>>

\* proof.rs 58 and 72-94: the selector and the quorum test.
ExtractPks ==
    /\ pc = "VoteHashed"
    /\ LET r == extract_pks(proof, validator_list)
       IN  /\ pks' = r.pks
           /\ decoded' = r.decoded
           /\ IF r.err # "None"
              THEN Return(r.err) /\ passed' = passed
              ELSE pc' = "QuorumChecked" /\ result' = result
                   /\ passed' = Append(passed, "quorum")
    /\ UNCHANGED <<block, previous_state_root, validator_list, proof, raw_proposal,
                   hash_vote, c_pk, sig, trieVars, voteVars, hexVars>>

\* proof.rs 59-60: the keys are aggregated.
AggregateKeys ==
    /\ pc = "QuorumChecked"
    /\ LET a == Aggregate(pks)
       IN  /\ c_pk' = a.key
           /\ IF a.err # "None"
              THEN Return(a.err)
              ELSE pc' = "Aggregated" /\ result' = result
    /\ UNCHANGED <<block, previous_state_root, validator_list, proof, raw_proposal,
                   hash_vote, pks, decoded, sig, passed, trieVars, voteVars, hexVars>>

\* proof.rs 61: the signature is decoded.
DecodeSignature ==
    /\ pc = "Aggregated"
    /\ IF SigDecodes(proof.signature)
       THEN pc' = "SigDecoded" /\ result' = result /\ sig' = proof.signature
       ELSE Return("BLST_BAD_ENCODING") /\ sig' = sig
    /\ UNCHANGED <<block, previous_state_root, validator_list, proof, raw_proposal,
                   hash_vote, pks, decoded, c_pk, passed, trieVars, voteVars, hexVars>>

\* proof.rs 63-69: the signature is verified and the verdict returned.
VerifySignature ==
    /\ pc = "SigDecoded"
    /\ LET res == SigVerify(sig, hash_vote, DST, c_pk)
       IN  IF res = "BLST_SUCCESS"
           THEN Return("Ok") /\ passed' = Append(passed, "signature")
           ELSE Return(res) /\ passed' = passed
    /\ UNCHANGED <<block, previous_state_root, validator_list, proof, raw_proposal,
                   hash_vote, pks, decoded, c_pk, sig, trieVars, voteVars, hexVars>>

Next ==
    \/ BuildProposal
    \/ CheckBlockHash
    \/ BuildVote
    \/ ExtractPks
    \/ AggregateKeys
    \/ DecodeSignature
    \/ VerifySignature

Spec == Init /\ [][Next]_vars

\* The step-by-step run returns what the function returns.
StepwiseAgrees ==
    pc = "Done" =>
        result = VerifyProofResult(block, previous_state_root, validator_list, proof)

-----------------------------------------------------------------------------
(* extract_pks on its own: verify_proof at the call of proof.rs 58, over   *)
(* lists with repeated keys, a list longer than a byte of bitmap, and      *)
(* bitmaps of two bytes.                                                   *)

\* Nine validators, so that the ninth is selected by the second byte.
LongList == [i \in 1..9 |-> Validator(((i - 1) % NumValidKeys) + 1)]

DuplicateLists ==
    { <<Validator(1), Validator(1), Validator(2)>>,
      <<Validator(1), Validator(1), Validator(1)>>,
      <<Validator(2), Validator(1), Validator(2), Validator(1)>>,
      <<Validator(UndecodablePoint), Validator(UndecodablePoint), Validator(1)>> }

SelectorLists == ValidatorLists \cup DuplicateLists \cup {LongList}

SelectorBitmaps ==
    Bitmaps \cup {<<255, 128>>, <<255, 0>>, <<0, 128>>, <<127, 128>>, <<224, 255>>}

SelectorInit ==
    /\ \E vl \in SelectorLists, bm \in SelectorBitmaps :
          LET in == Input(BaseBlock, BaseRoot, vl, 100, 0, BaseDigest,
                          MalformedSignature, bm)
          IN  /\ block = in.block
              /\ previous_state_root = in.previous_state_root
              /\ validator_list = in.validator_list
              /\ proof = in.proof
              /\ raw_proposal = rlp_bytes(ProposalOf(in.block, in.previous_state_root))
              /\ hash_vote = VoteDigest(VoteOf(in.block, in.proof))
    /\ pc = "VoteHashed"
    /\ pks = <<>>
    /\ decoded = {}
    /\ c_pk = <<>>
    /\ sig = RawSignature(<<>>)
    /\ result = "None"
    /\ passed = <<"hash">>
    /\ TrieIdle
    /\ VoteIdle
    /\ HexIdle

SelectorNext == ExtractPks

SelectorSpec == SelectorInit /\ [][SelectorNext]_vars

-----------------------------------------------------------------------------
(* verify_proof over validators of unequal weights.                        *)

WeightedValidator(k, pw, vw) ==
    [pub_key |-> PubKeyBytes(k), propose_weight |-> pw, vote_weight |-> vw]

\* The (propose_weight, vote_weight) pairs a validator draws from.
WeightPairs == {<<1, 1>>, <<10, 10>>, <<0, 5>>}

\* Lists of one and of three validators with every choice of weights.
WeightedLists ==
    UNION { { [i \in 1..n |-> WeightedValidator(i, w[i][1], w[i][2])] :
              w \in [1..n -> WeightPairs] } : n \in {1, 3} }

WeightedInputs ==
    { Input(BaseBlock, BaseRoot, vl, 100, 0, bh, sg, bm) :
      vl \in WeightedLists, bh \in {BaseDigest, H256Of(0)},
      bm \in Bitmaps, sg \in PrefixSignatures \cup {MalformedSignature} }

WeightInit ==
    /\ \E in \in WeightedInputs :
          /\ block = in.block
          /\ previous_state_root = in.previous_state_root
          /\ validator_list = in.validator_list
          /\ proof = in.proof
    /\ pc = "Start"
    /\ raw_proposal = NoBytes
    /\ hash_vote = <<>>
    /\ pks = <<>>
    /\ decoded = {}
    /\ c_pk = <<>>
    /\ sig = RawSignature(<<>>)
    /\ result = "None"
    /\ passed = <<>>
    /\ TrieIdle
    /\ VoteIdle
    /\ HexIdle

WeightSpec == WeightInit /\ [][Next]_vars

-----------------------------------------------------------------------------
(* verify_trie_proof and the trie library it calls.                        *)

\* A decoded proof node: a leaf holds the rest of a key's nibble path and a
\* value, a branch holds 16 child references (<<>> for none), and garbage is
\* bytes that decode to no node.
LeafNode(path, value) ==
    [kind |-> "leaf", path |-> path, value |-> value, children |-> <<>>]

BranchNode(children) ==
    [kind |-> "branch", path |-> <<>>, value |-> <<>>, children |-> children]

GarbageNode == [kind |-> "garbage", path |-> <<>>, value |-> <<>>, children |-> <<>>]

RECURSIVE Flatten(_)
Flatten(ss) == IF ss = <<>> THEN <<>> ELSE <<259>> \o Head(ss) \o Flatten(Tail(ss))

\* The bytes of a node, as far as hashing tells them apart.
NodeBytes(n) ==
    CASE n.kind = "leaf"   -> <<2>> \o n.path \o <<259>> \o n.value
      [] n.kind = "branch" -> <<1>> \o Flatten(n.children)
      [] OTHER             -> <<0>>

NodeHash(n) == keccak_256(NodeBytes(n))

RECURSIVE Nibbles(_)
Nibbles(key) ==
    IF key = <<>> THEN <<>>
    ELSE <<Head(key) \div 16, Head(key) % 16>> \o Nibbles(Tail(key))

TrieSome(v) == [kind |-> "Some", value |-> v]
TrieNone == [kind |-> "None", value |-> <<>>]
TrieErr == [kind |-> "Err", value |-> <<>>]

\* The lookup of the trie library from node n along path: a reference to a
\* node the proof does not hold reads as an empty node.
RECURSIVE TrieGet(_, _, _)
TrieGet(n, path, nodes) ==
    CASE n.kind = "garbage" -> TrieErr
      [] n.kind = "leaf" -> IF n.path = path THEN TrieSome(n.value) ELSE TrieNone
      [] OTHER ->
            IF path = <<>> THEN TrieNone
            ELSE LET ref == n.children[Head(path) + 1]
                 IN  IF ref = <<>> THEN TrieNone
                     ELSE IF \E m \in nodes : NodeHash(m) = ref
                     THEN TrieGet(CHOOSE m \in nodes : NodeHash(m) = ref,
                                  Tail(path), nodes)
                     ELSE TrieNone

\* cita_trie::verify_proof: a root the proof holds no node for is an error.
TrieVerify(root, key, nodes) ==
    IF \E m \in Range(nodes) : NodeHash(m) = root
    THEN TrieGet(CHOOSE m \in Range(nodes) : NodeHash(m) = root,
                 Nibbles(key), Range(nodes))
    ELSE TrieErr

\* Mutant of VerifyTrieProofResult: the library's error is dropped.
VerifyTrieProofResultNoError(lib) == "Ok(())"

\* verify_trie_proof: `?` returns the library's error, and Ok(()) otherwise.
VerifyTrieProofResult(lib) == IF lib.kind = "Err" THEN "Err" ELSE "Ok(())"

\* The receipts trie of examples/verify_trie_proof.rs: keys rlp(0) = 0x80 and
\* rlp(1) = 0x01.
Leaf0 == LeafNode(<<0>>, <<70>>)
Leaf1 == LeafNode(<<1>>, <<71>>)

ReceiptsBranch ==
    BranchNode([i \in 1..16 |-> CASE i = 9 -> NodeHash(Leaf0)
                                  [] i = 1 -> NodeHash(Leaf1)
                                  [] OTHER -> <<>>])

ReceiptsRoot == NodeHash(ReceiptsBranch)

SingleLeaf == LeafNode(<<8, 0>>, <<72>>)

TrieRoots == {ReceiptsRoot, NodeHash(SingleLeaf), NodeHash(Leaf0), H256Of(4)}

TrieKeys == {<<128>>, <<1>>, <<2>>, <<129, 200>>}

TrieProofs ==
    { <<>>, <<ReceiptsBranch, Leaf0>>, <<ReceiptsBranch, Leaf1>>,
      <<ReceiptsBranch, Leaf0, Leaf1>>, <<Leaf0>>, <<SingleLeaf>>,
      <<GarbageNode>>, <<ReceiptsBranch, GarbageNode>> }

ProofIdle ==
    /\ block = BaseBlock
    /\ previous_state_root = BaseRoot
    /\ validator_list = <<>>
    /\ proof = BaseHeader.proof
    /\ pc = "Idle"
    /\ raw_proposal = NoBytes
    /\ hash_vote = <<>>
    /\ pks = <<>>
    /\ decoded = {}
    /\ c_pk = <<>>
    /\ sig = RawSignature(<<>>)
    /\ result = "None"
    /\ passed = <<>>

TrieInit ==
    /\ trie_in \in [root : TrieRoots, key : TrieKeys, proof : TrieProofs]
    /\ trie_pc = "Start"
    /\ trie_lib = TrieNone
    /\ trie_result = "None"
    /\ ProofIdle
    /\ VoteIdle
    /\ HexIdle

\* proof.rs 16: the library is called.
TrieCall ==
    /\ trie_pc = "Start"
    /\ trie_lib' = TrieVerify(trie_in.root, trie_in.key, trie_in.proof)
    /\ trie_pc' = "Called"
    /\ UNCHANGED <<trie_in, trie_result, proofVars, voteVars, hexVars>>

\* proof.rs 16-17: `?` and Ok(()).
TrieReturn ==
    /\ trie_pc = "Called"
    /\ trie_result' = VerifyTrieProofResult(trie_lib)
    /\ trie_pc' = "Done"
    /\ UNCHANGED <<trie_in, trie_lib, proofVars, voteVars, hexVars>>

TrieNext == TrieCall \/ TrieReturn

TrieSpec == TrieInit /\ [][TrieNext]_vars

-----------------------------------------------------------------------------
(* test_vote_codec: a Vote is encoded by impl Encodable for Vote and       *)
(* decoded by the rlp crate as the signer's Vote (a list of four items:    *)
(* u64, u64, u8, bytes).                                                   *)

\* The big-endian value of a byte string.
RECURSIVE BeValue(_)
BeValue(b) ==
    IF b = <<>> THEN 0 ELSE BeValue(SubSeq(b, 1, Len(b) - 1)) * 256 + b[Len(b)]

RlpBad == [ok |-> FALSE, list |-> FALSE, hdr |-> 0, len |-> 0]

\* Rlp::payload_info: the header of the item at the head of b.
RlpHeader(b) ==
    IF b = <<>> THEN RlpBad
    ELSE LET b0 == b[1]
             long(base) ==
                 LET ll == b0 - base
                 IN  IF Len(b) < 1 + ll \/ b[2] = 0 THEN RlpBad
                     ELSE [ok |-> TRUE, list |-> base = 247, hdr |-> 1 + ll,
                           len |-> BeValue(SubSeq(b, 2, 1 + ll))]
             h == IF b0 < 128 THEN [ok |-> TRUE, list |-> FALSE, hdr |-> 0, len |-> 1]
                  ELSE IF b0 <= 183
                  THEN [ok |-> TRUE, list |-> FALSE, hdr |-> 1, len |-> b0 - 128]
                  ELSE IF b0 <= 191 THEN long(183)
                  ELSE IF b0 <= 247
                  THEN [ok |-> TRUE, list |-> TRUE, hdr |-> 1, len |-> b0 - 192]
                  ELSE long(247)
         IN  IF h.ok /\ h.hdr + h.len <= Len(b) THEN h ELSE RlpBad

\* Rlp::iter: the items of a list's payload, or <<RlpBad>> where they do not
\* parse.
RECURSIVE RlpItems(_)
RlpItems(payload) ==
    IF payload = <<>> THEN <<>>
    ELSE LET h == RlpHeader(payload)
         IN  IF ~h.ok THEN <<RlpBad>>
             ELSE <<[ok |-> TRUE, list |-> h.list, hdr |-> h.hdr,
                     data |-> SubSeq(payload, h.hdr + 1, h.hdr + h.len)]>>
                  \o RlpItems(SubSeq(payload, h.hdr + h.len + 1, Len(payload)))

\* Decoder::decode_value: the bytes of a string item (a single byte below
\* 0x80 must stand for itself).
RlpAsData(item) ==
    /\ item.ok
    /\ ~item.list
    /\ ~(item.hdr = 1 /\ Len(item.data) = 1 /\ item.data[1] < 128)

\* impl Decodable for u64 / u8: at most `size` bytes, no leading zero.
RlpAsUint(item, size) ==
    /\ RlpAsData(item)
    /\ Len(item.data) <= size
    /\ (item.data # <<>> => item.data[1] # 0)

\* rlp::decode of the signer's Vote.
DecodeVote(raw) ==
    LET h == RlpHeader(raw)
        items == IF h.ok /\ h.list
                 THEN RlpItems(SubSeq(raw, h.hdr + 1, h.hdr + h.len))
                 ELSE <<RlpBad>>
    IN  IF /\ Len(items) = 4
           /\ RlpAsUint(items[1], 8)
           /\ RlpAsUint(items[2], 8)
           /\ RlpAsUint(items[3], 1)
           /\ RlpAsData(items[4])
        THEN [ok |-> TRUE,
              vote |-> [ height     |-> BeValue(items[1].data),
                         round      |-> BeValue(items[2].data),
                         vote_type  |-> BeValue(items[3].data),
                         block_hash |-> items[4].data ]]
        ELSE [ok |-> FALSE, vote |-> NoVote]

\* The heights and rounds the votes draw from: every length of encoding up
\* to four bytes.
VoteNumbers == {0, 1, 127, 128, 255, 256, 65535, 16777216, 2147483647}

\* The block hashes the votes draw from: 32 bytes as Vote::random makes
\* them, and the strings whose encoding has another shape.
VoteBlockHashes ==
    { H256Of(0), H256Of(1), H256Of(255), <<>>, <<5>>, <<128>>,
      [i \in 1..56 |-> i] }

Votes ==
    [height : VoteNumbers, round : VoteNumbers, vote_type : {2},
     block_hash : VoteBlockHashes]

VoteCodecInit ==
    /\ vote_in \in Votes
    /\ vote_pc = "Start"
    /\ vote_raw = <<>>
    /\ vote_out = [ok |-> FALSE, vote |-> NoVote]
    /\ ProofIdle
    /\ TrieIdle
    /\ HexIdle

\* types.rs 844: rlp::encode(&vote).
VoteEncode ==
    /\ vote_pc = "Start"
    /\ vote_raw' = RlpVote(vote_in).b
    /\ vote_pc' = "Encoded"
    /\ UNCHANGED <<vote_in, vote_out, proofVars, trieVars, hexVars>>

\* types.rs 845: rlp::decode(&raw).
VoteDecode ==
    /\ vote_pc = "Encoded"
    /\ vote_out' = DecodeVote(vote_raw)
    /\ vote_pc' = "Decoded"
    /\ UNCHANGED <<vote_in, vote_raw, proofVars, trieVars, hexVars>>

VoteCodecNext == VoteEncode \/ VoteDecode

VoteCodecSpec == VoteCodecInit /\ [][VoteCodecNext]_vars

-----------------------------------------------------------------------------
(* The hex codec of u64 fields: serialize_uint and deserialize_hex_u64.    *)
(* A string is the sequence of its characters; a u64 is its eight bytes    *)
(* and a U256 its thirty-two, most significant first.                      *)

CHARS == <<"0", "1", "2", "3", "4", "5", "6", "7", "8", "9",
           "a", "b", "c", "d", "e", "f">>

ZeroWord == [i \in 1..8 |-> 0]

\* val.to_big_endian(&mut bytes) of the U256 made from a u64.
to_big_endian(word) == [i \in 1..32 |-> IF i <= 24 THEN 0 ELSE word[i - 24]]

\* bytes.iter().take_while(|b| **b == 0).count()
RECURSIVE LeadingZeros(_)
LeadingZeros(bytes) ==
    IF bytes = <<>> \/ Head(bytes) # 0 THEN 0 ELSE 1 + LeadingZeros(Tail(bytes))

RECURSIVE HexPairs(_)
HexPairs(bytes) ==
    IF bytes = <<>> THEN <<>>
    ELSE <<CHARS[(Head(bytes) \div 16) + 1], CHARS[(Head(bytes) % 16) + 1]>>
         \o HexPairs(Tail(bytes))

\* encode::to_hex_raw
to_hex_raw(bytes, skip_leading_zero) ==
    LET first_nibble == bytes[1] \div 16
    IN  <<"0", "x">>
        \o (IF first_nibble # 0 \/ ~skip_leading_zero
            THEN <<CHARS[first_nibble + 1]>> ELSE <<>>)
        \o <<CHARS[(bytes[1] % 16) + 1]>>
        \o HexPairs(Tail(bytes))

\* encode::serialize_uint
serialize_uint(val) ==
    LET all == to_big_endian(val)
        non_zero == LeadingZeros(all)
        bytes == SubSeq(all, non_zero + 1, Len(all))
    IN  IF bytes = <<>> THEN <<"0", "x", "0">> ELSE to_hex_raw(bytes, TRUE)

\* char::to_digit(16): the value of a hex digit, or -1.
ToDigit(c) ==
    CASE c \in {"0", "1", "2", "3", "4", "5", "6", "7", "8", "9"} ->
             (CHOOSE i \in 1..10 : CHARS[i] = c) - 1
      [] c \in {"a", "A"} -> 10
      [] c \in {"b", "B"} -> 11
      [] c \in {"c", "C"} -> 12
      [] c \in {"d", "D"} -> 13
      [] c \in {"e", "E"} -> 14
      [] c \in {"f", "F"} -> 15
      [] OTHER -> -1

\* u8::from_str_radix(s, 16) for a string of one or two characters: a
\* leading "+" is accepted when a digit follows.
from_str_radix(s) ==
    LET digits == IF Len(s) > 1 /\ s[1] = "+" THEN Tail(s) ELSE s
    IN  IF digits = <<>> \/ \E i \in DOMAIN digits : ToDigit(digits[i]) = -1
        THEN [ok |-> FALSE, byte |-> 0]
        ELSE IF Len(digits) = 1
        THEN [ok |-> TRUE, byte |-> ToDigit(digits[1])]
        ELSE [ok |-> TRUE, byte |-> ToDigit(digits[1]) * 16 + ToDigit(digits[2])]

\* The loop of from_hex from index i (from 0) on.
RECURSIVE FromHexLoop(_, _, _)
FromHexLoop(hex, i, bytes) ==
    IF i >= Len(hex) THEN [ok |-> TRUE, bytes |-> bytes]
    ELSE LET end_i == IF i + 2 > Len(hex) THEN i + 1 ELSE i + 2
             byte == from_str_radix(SubSeq(hex, i + 1, end_i))
         IN  IF ~byte.ok THEN [ok |-> FALSE, bytes |-> <<>>]
             ELSE FromHexLoop(hex, i + 2, Append(bytes, byte.byte))

\* Mutant of from_hex: a string of odd length is not given its own first
\* byte.
from_hex_NoOddStart(hex) == FromHexLoop(hex, 0, <<>>)

\* decode::from_hex
from_hex(hex) ==
    IF Len(hex) % 2 # 0
    THEN LET byte == from_str_radix(SubSeq(hex, 1, 1))
         IN  IF ~byte.ok THEN [ok |-> FALSE, bytes |-> <<>>]
             ELSE FromHexLoop(hex, 1, <<byte.byte>>)
    ELSE FromHexLoop(hex, 0, <<>>)

\* U256::from_big_endian of at most 32 bytes.
from_big_endian(bytes) ==
    [i \in 1..32 |-> IF i <= 32 - Len(bytes) THEN 0 ELSE bytes[i - (32 - Len(bytes))]]

\* U256::low_u64
low_u64(u) == SubSeq(u, 25, 32)

HexErr == [ok |-> FALSE, value |-> ZeroWord]

\* decode::deserialize_hex_u64
deserialize_hex_u64(s) ==
    IF s = <<"0", "x", "0">> THEN [ok |-> TRUE, value |-> ZeroWord]
    ELSE IF Len(s) >= 2 /\ SubSeq(s, 1, 2) = <<"0", "x">>
    THEN LET bytes == from_hex(SubSeq(s, 3, Len(s)))
         IN  IF ~bytes.ok THEN HexErr
             ELSE [ok |-> TRUE, value |-> low_u64(from_big_endian(bytes.bytes))]
    ELSE HexErr

\* The u64 values the round trip draws from: those of
\* test_deserialize_hex_u64, and for every length from one to eight bytes
\* values with a small and a large first digit.
HexValues ==
    { <<0, 0, 0, 0, 0, 0, 0, 0>>,
      <<0, 0, 0, 0, 0, 0, 0, 1>>,
      <<0, 0, 0, 0, 0, 0, 0, 7>>,
      <<0, 0, 0, 0, 0, 0, 0, 15>>,
      <<0, 0, 0, 0, 0, 0, 0, 16>>,
      <<0, 0, 0, 0, 0, 0, 0, 18>>,
      <<0, 0, 0, 0, 0, 0, 0, 255>>,
      <<0, 0, 0, 0, 0, 0, 1, 0>>,
      <<0, 0, 0, 0, 0, 0, 1, 171>>,
      <<0, 0, 0, 0, 0, 0, 2, 51>>,
      <<0, 0, 0, 0, 0, 0, 15, 0>>,
      <<0, 0, 0, 0, 0, 0, 15, 171>>,
      <<0, 0, 0, 0, 0, 0, 16, 0>>,
      <<0, 0, 0, 0, 0, 0, 16, 171>>,
      <<0, 0, 0, 0, 0, 0, 255, 0>>,
      <<0, 0, 0, 0, 0, 0, 255, 171>>,
      <<0, 0, 0, 0, 0, 1, 0, 0>>,
      <<0, 0, 0, 0, 0, 1, 171, 171>>,
      <<0, 0, 0, 0, 0, 15, 0, 0>>,
      <<0, 0, 0, 0, 0, 15, 171, 171>>,
      <<0, 0, 0, 0, 0, 16, 0, 0>>,
      <<0, 0, 0, 0, 0, 16, 171, 171>>,
      <<0, 0, 0, 0, 0, 255, 0, 0>>,
      <<0, 0, 0, 0, 0, 255, 171, 171>>,
      <<0, 0, 0, 0, 1, 0, 0, 0>>,
      <<0, 0, 0, 0, 1, 171, 171, 171>>,
      <<0, 0, 0, 0, 6, 127, 237, 18>>,
      <<0, 0, 0, 0, 15, 0, 0, 0>>,
      <<0, 0, 0, 0, 15, 171, 171, 171>>,
      <<0, 0, 0, 0, 16, 0, 0, 0>>,
      <<0, 0, 0, 0, 16, 171, 171, 171>>,
      <<0, 0, 0, 0, 141, 222, 250, 9>>,
      <<0, 0, 0, 0, 255, 0, 0, 0>>,
      <<0, 0, 0, 0, 255, 171, 171, 171>>,
      <<0, 0, 0, 1, 0, 0, 0, 0>>,
      <<0, 0, 0, 1, 171, 171, 171, 171>>,
      <<0, 0, 0, 15, 0, 0, 0, 0>>,
      <<0, 0, 0, 15, 171, 171, 171, 171>>,
      <<0, 0, 0, 16, 0, 0, 0, 0>>,
      <<0, 0, 0, 16, 171, 171, 171, 171>>,
      <<0, 0, 0, 255, 0, 0, 0, 0>>,
      <<0, 0, 0, 255, 171, 171, 171, 171>>,
      <<0, 0, 1, 0, 0, 0, 0, 0>>,
      <<0, 0, 1, 171, 171, 171, 171, 171>>,
      <<0, 0, 15, 0, 0, 0, 0, 0>>,
      <<0, 0, 15, 171, 171, 171, 171, 171>>,
      <<0, 0, 16, 0, 0, 0, 0, 0>>,
      <<0, 0, 16, 171, 171, 171, 171, 171>>,
      <<0, 0, 255, 0, 0, 0, 0, 0>>,
      <<0, 0, 255, 171, 171, 171, 171, 171>>,
      <<0, 1, 0, 0, 0, 0, 0, 0>>,
      <<0, 1, 171, 171, 171, 171, 171, 171>>,
      <<0, 15, 0, 0, 0, 0, 0, 0>>,
      <<0, 15, 171, 171, 171, 171, 171, 171>>,
      <<0, 16, 0, 0, 0, 0, 0, 0>>,
      <<0, 16, 171, 171, 171, 171, 171, 171>>,
      <<0, 255, 0, 0, 0, 0, 0, 0>>,
      <<0, 255, 171, 171, 171, 171, 171, 171>>,
      <<1, 0, 0, 0, 0, 0, 0, 0>>,
      <<1, 35, 69, 103, 137, 171, 205, 239>>,
      <<1, 171, 171, 171, 171, 171, 171, 171>>,
      <<15, 0, 0, 0, 0, 0, 0, 0>>,
      <<15, 171, 171, 171, 171, 171, 171, 171>>,
      <<16, 0, 0, 0, 0, 0, 0, 0>>,
      <<16, 171, 171, 171, 171, 171, 171, 171>>,
      <<128, 0, 0, 0, 0, 0, 0, 0>>,
      <<255, 0, 0, 0, 0, 0, 0, 0>>,
      <<255, 171, 171, 171, 171, 171, 171, 171>>,
      <<255, 255, 255, 255, 255, 255, 255, 255>> }

\* The strings deserialize_hex_u64 is given: those of
\* test_deserialize_hex_u64, strings with leading zeros, upper case and
\* sixteen digits, strings that are no hex, and strings without "0x".
HexStrings ==
    { <<"0", "x", "0">>,
      <<"0", "x", "7">>,
      <<"0", "x", "1", "2">>,
      <<"0", "x", "2", "3", "3">>,
      <<"0", "x", "6", "7", "f", "e", "d", "1", "2">>,
      <<"0", "x", "8", "d", "d", "e", "f", "a", "0", "9">>,
      <<"0", "x">>,
      <<"0", "x", "0", "0">>,
      <<"0", "x", "0", "0", "7">>,
      <<"0", "x", "A", "B">>,
      <<"0", "x", "f", "f", "f", "f", "f", "f", "f", "f", "f", "f", "f", "f", "f", "f", "f", "f">>,
      <<"0", "x", "0", "1", "2", "3", "4", "5", "6", "7", "8", "9", "a", "b", "c", "d", "e", "f">>,
      <<"0", "x", "1", "0", "0">>,
      <<"0", "x", "g", "1">>,
      <<"0", "x", "1", "g">>,
      <<"0", "x", "+", "1">>,
      <<"0", "x", "+">>,
      <<"1", "2">>,
      <<"7">>,
      <<>>,
      <<"0">>,
      <<"x", "1">>,
      <<"0", "X", "1", "2">>,
      <<"1", "x", "0">>,
      <<"2", "3", "3">>,
      <<"f", "f">> }

HexInit ==
    /\ \/ /\ hex_in \in [given : {TRUE}, value : HexValues]
          /\ hex_pc = "Start"
          /\ hex_str = <<>>
       \/ /\ hex_in = [given |-> FALSE, value |-> ZeroWord]
          /\ hex_pc = "Serialized"
          /\ hex_str \in HexStrings
    /\ hex_out = HexErr
    /\ ProofIdle
    /\ TrieIdle
    /\ VoteIdle

\* types.rs 680-697: the value is written as a string.
HexSerialize ==
    /\ hex_pc = "Start"
    /\ hex_str' = serialize_uint(hex_in.value)
    /\ hex_pc' = "Serialized"
    /\ UNCHANGED <<hex_in, hex_out, proofVars, trieVars, voteVars>>

\* types.rs 776-795: the string is read.
HexDeserialize ==
    /\ hex_pc = "Serialized"
    /\ hex_out' = deserialize_hex_u64(hex_str)
    /\ hex_pc' = "Done"
    /\ UNCHANGED <<hex_in, hex_str, proofVars, trieVars, voteVars>>

HexNext == HexSerialize \/ HexDeserialize

HexSpec == HexInit /\ [][HexNext]_vars

-----------------------------------------------------------------------------
(* What the claims speak of, stated apart from the code's own loop.        *)

\* The positions (from 1) of the validators the bitmap selects.
\* Bit i (from 0) of a bitmap, most significant bit of each byte first.
MsbFirstBit(bitmap, i) ==
    LET byte == bitmap[(i \div 8) + 1]
        weight == 2 ^ (7 - (i % 8))
    IN  (byte \div weight) % 2 = 1

Selected(p, vl) ==
    {i \in 1..Len(vl) : i <= 8 * Len(p.bitmap) /\ MsbFirstBit(p.bitmap, i - 1)}

SelectedCount(p, vl) == Cardinality(Selected(p, vl))

SelectedAllDecode(p, vl) == \A i \in Selected(p, vl) : PkDecodes(vl[i].pub_key)

SelectedAllValid(p, vl) ==
    \A i \in Selected(p, vl) :
        PkDecodes(vl[i].pub_key) /\ PkPoint(vl[i].pub_key) \in ValidPoints

Occurrences(s, x) == Cardinality({j \in DOMAIN s : s[j] = x})

\* key is the sum of exactly the selected validators' points.
AggregatesSelected(key, p, vl) ==
    \A k \in ListPoints \cup Range(key) :
        Occurrences(key, k) =
            Cardinality({i \in Selected(p, vl) : PkPoint(vl[i].pub_key) = k})

\* The block hash of the input is the one the proof claims.
HashMatches(b, psr, p) ==
    LET raw == rlp_bytes(ProposalOf(b, psr))
    IN  ~raw.panicked /\ keccak_256(raw.bytes) = p.block_hash

Reorderings(s) ==
    { [i \in DOMAIN s |-> s[f[i]]] :
      f \in {g \in [DOMAIN s -> DOMAIN s] : \A i, j \in DOMAIN s : i # j => g[i] # g[j]} }

-----------------------------------------------------------------------------
(* The claims.                                                             *)

\* C1: verify_proof returns Ok(()) only when the recomputed block hash equals
\* proof.block_hash, 3 * (selected validators) > 2 * validator_list.len(), and
\* the signature verifies against the vote digest under the aggregate of
\* exactly the selected keys; and the three checks were passed in this order.
C1_OkOnlyAfterAllChecks ==
    result = "Ok" =>
        /\ HashMatches(block, previous_state_root, proof)
        /\ 3 * SelectedCount(proof, validator_list) > 2 * Len(validator_list)
        /\ AggregatesSelected(c_pk, proof, validator_list)
        /\ proof.signature.wf
        /\ proof.signature.signers = c_pk
        /\ proof.signature.msg = hash_vote
        /\ proof.signature.dst = DST
        /\ hash_vote = keccak_256(RlpVote(VoteOf(block, proof)).b)
        /\ passed = <<"hash", "quorum", "signature">>

C1_Witness ==
    /\ result = "Ok"
    /\ Len(validator_list) = 4
    /\ SelectedCount(proof, validator_list) = 3

\* C2: when the hash of the rebuilt Proposal differs from proof.block_hash,
\* verify_proof returns InvalidProofBlockHash, and no key was decoded, no
\* quorum evaluated and no signature examined, whatever the rest of the input.
C2_HashMismatchRejectedFirst ==
    LET raw == rlp_bytes(ProposalOf(block, previous_state_root))
    IN  (~raw.panicked /\ keccak_256(raw.bytes) # proof.block_hash) =>
            \/ pc \in {"Start", "Encoded"}
            \/ /\ pc = "Done"
               /\ result = "InvalidProofBlockHash"
               /\ pks = <<>> /\ decoded = {} /\ c_pk = <<>>
               /\ hash_vote = <<>>
               /\ sig = RawSignature(<<>>)
               /\ passed = <<>>

\* A mismatch on an input whose validators, bitmap and signature are those of
\* a proof that is accepted for the untampered block.
C2_Witness ==
    /\ pc = "Done"
    /\ result = "InvalidProofBlockHash"
    /\ block = TsBlock
    /\ VerifyProofResult(BaseBlock, previous_state_root, validator_list, proof) = "Ok"

\* C3: when the hash check passed and every selected key decodes,
\* verify_proof returns NotEnoughSignatures if and only if 3*k <= 2*n.
C3_QuorumIsThreeKOverTwoN ==
    (/\ pc = "Done"
     /\ HashMatches(block, previous_state_root, proof)
     /\ SelectedAllDecode(proof, validator_list)) =>
        (result = "NotEnoughSignatures"
            <=> 3 * SelectedCount(proof, validator_list) <= 2 * Len(validator_list))

\* n = 3 with k = 2 is rejected.
C3_Witness ==
    /\ pc = "Done"
    /\ Len(validator_list) = 3
    /\ SelectedCount(proof, validator_list) = 2
    /\ SelectedAllDecode(proof, validator_list)
    /\ result = "NotEnoughSignatures"

\* n = 4 is satisfied by k = 3, n = 3 by k = 3, and n = 0 is rejected.
C3_OtherCases ==
    ~ \/ /\ pc = "Done" /\ Len(validator_list) = 4
         /\ SelectedCount(proof, validator_list) = 3
         /\ SelectedAllDecode(proof, validator_list)
         /\ result = "NotEnoughSignatures"
      \/ /\ pc = "Done" /\ Len(validator_list) = 0
         /\ HashMatches(block, previous_state_root, proof)
         /\ result # "NotEnoughSignatures"

\* C4 as claimed: every input whose block hash matches and whose selected
\* count k has 3*k <= 2*n ends in NotEnoughSignatures.
C4_AsClaimed ==
    (/\ pc = "Done"
     /\ HashMatches(block, previous_state_root, proof)
     /\ 3 * SelectedCount(proof, validator_list) <= 2 * Len(validator_list)) =>
        result = "NotEnoughSignatures"

\* C4, amended: every input whose block hash matches, whose selected keys all
\* decode and whose selected count k has 3*k <= 2*n ends in
\* NotEnoughSignatures, and the signature was not examined, even where the
\* aggregate signature of the selected validators verifies.
C4_BelowQuorumRejected ==
    (/\ pc = "Done"
     /\ HashMatches(block, previous_state_root, proof)
     /\ SelectedAllDecode(proof, validator_list)
     /\ 3 * SelectedCount(proof, validator_list) <= 2 * Len(validator_list)) =>
        /\ result = "NotEnoughSignatures"
        /\ c_pk = <<>>
        /\ sig = RawSignature(<<>>)
        /\ passed = <<"hash">>

\* Two of three validators selected, with the valid aggregate signature of
\* those two over the vote.
C4_Witness ==
    /\ pc = "Done"
    /\ result = "NotEnoughSignatures"
    /\ SelectedCount(proof, validator_list) = 2
    /\ SelectedAllValid(proof, validator_list)
    /\ proof.signature.wf
    /\ AggregatesSelected(proof.signature.signers, proof, validator_list)
    /\ proof.signature.msg = hash_vote
    /\ proof.signature.dst = DST

\* C5: verify_proof returns the same result on any two validator lists that
\* are permutations of each other.
C5_ReorderingKeepsOutcome ==
    pc = "Done" =>
        \A vl \in Reorderings(validator_list) :
            VerifyProofResult(block, previous_state_root, vl, proof) = result

\* C6: two inputs that differ only in one committed field cannot both pass
\* the hash check against the same proof.block_hash.
C6_TamperingChangesHash ==
    (pc = "HashChecked") =>
        \A f \in CommittedFields :
            ~HashMatches(TamperBlock(block, f),
                         TamperRoot(previous_state_root, f), proof)

\* C7: the height encoded into the vote digest is the number of the block
\* being verified.
C7_VoteHeightIsBlockNumber ==
    pc \in {"VoteHashed", "QuorumChecked", "Aggregated", "SigDecoded"} =>
        hash_vote = SignedDigest(block.header.number, proof.round, proof.block_hash)

\* C8: when the block hash matches, the bitmap selects k validators with
\* 3*k > 2*n whose keys are valid, and proof.signature is the aggregate
\* signature of exactly those validators over the digest of the vote
\* (proof.number, proof.round, 2, proof.block_hash) under DST, verify_proof
\* returns Ok(()).
C8_ValidQuorumSignatureAccepted ==
    (/\ pc = "Done"
     /\ HashMatches(block, previous_state_root, proof)
     /\ SelectedAllValid(proof, validator_list)
     /\ 3 * SelectedCount(proof, validator_list) > 2 * Len(validator_list)
     /\ proof.signature.wf
     /\ AggregatesSelected(proof.signature.signers, proof, validator_list)
     /\ proof.signature.msg = SignedDigest(proof.number, proof.round, proof.block_hash)
     /\ proof.signature.dst = DST) =>
        result = "Ok"

C8_Witness ==
    /\ pc = "Done"
    /\ result = "Ok"
    /\ proof.round = 1
    /\ proof.block_hash = TsDigest
    /\ proof.signature.msg = SignedDigest(proof.number, proof.round, proof.block_hash)

\* C9: a signature accepted for one vote is not accepted for an input with
\* the same signature and the same selected validators but another
\* proof.round or another proof.block_hash.
C9_SignatureBoundToVote ==
    result = "Ok" =>
        \A b \in Blocks, psr \in Roots, r \in Rounds, bh \in BlockHashes :
            (r # proof.round \/ bh # proof.block_hash) =>
                VerifyProofResult(b, psr, validator_list,
                                  [proof EXCEPT !.round = r, !.block_hash = bh]) # "Ok"

\* An accepted proof whose signature, moved to the other block and its hash,
\* passes the hash check and the quorum and fails the signature check.
C9_Witness ==
    /\ result = "Ok"
    /\ block = BaseBlock
    /\ VerifyProofResult(TsBlock, previous_state_root, validator_list,
                         [proof EXCEPT !.block_hash = TsDigest]) = "BLST_VERIFY_FAIL"
    /\ VerifyProofResult(block, previous_state_root, validator_list,
                         [proof EXCEPT !.round = 1 - proof.round]) = "BLST_VERIFY_FAIL"

\* C10: the caller can tell from the value verify_trie_proof returns whether
\* the key was present (with its value), provably absent, or the proof was
\* malformed: two calls on which the trie verifier finds different outcomes
\* return different values.
C10_TrieOutcomeTold ==
    trie_pc = "Done" =>
        \A other \in [root : TrieRoots, key : TrieKeys, proof : TrieProofs] :
            LET lib == TrieVerify(other.root, other.key, other.proof)
            IN  lib # trie_lib => VerifyTrieProofResult(lib) # trie_result

\* The keys a trie of the model holds, by its root.
KeysOf(root) ==
    CASE root = ReceiptsRoot         -> {<<128>>, <<1>>}
      [] root = NodeHash(SingleLeaf) -> {<<128>>}
      [] OTHER                       -> {}

\* The proof is a path of well-formed nodes that starts at the node of root.
BuiltFrom(nodes, root) ==
    /\ nodes # <<>>
    /\ NodeHash(nodes[1]) = root
    /\ \A i \in DOMAIN nodes : nodes[i].kind # "garbage"

C11_AbsenceCase ==
    /\ trie_pc = "Done"
    /\ trie_in = [root |-> ReceiptsRoot, key |-> <<2>>,
                  proof |-> <<ReceiptsBranch, Leaf0>>]
    /\ trie_result = "Ok(())"

\* The k-th (from 1) position of a set of positions, in ascending order.
NthOf(S, k) == CHOOSE i \in S : Cardinality({j \in S : j < i}) = k - 1

\* The points of the validators at the positions S, one per position, in
\* ascending order of position.
PointsAt(S, vl) == [k \in 1..Cardinality(S) |-> PkPoint(vl[NthOf(S, k)].pub_key)]

\* Two bitmaps have the same bits at the positions below n, a position past
\* the end of a bitmap reading as an unset bit.
SameBitsBelow(bm1, bm2, n) ==
    \A i \in 0..(n - 1) :
        (i < 8 * Len(bm1) /\ MsbFirstBit(bm1, i))
            <=> (i < 8 * Len(bm2) /\ MsbFirstBit(bm2, i))

\* C12: extract_pks decodes keys only at the positions i (from 0) below
\* min(validator_list.len(), 8 * bitmap.len()) whose bit 7 - i % 8 of byte
\* i / 8 is set; when all of them decode it includes exactly their keys, one
\* per position, the count is the number of those positions, and the only
\* error is that of the quorum (a bitmap shorter than the list is none); and
\* a bitmap with the same bits below validator_list.len() gives the same
\* outcome.
C12_SelectorFollowsBitmap ==
    pc \in {"QuorumChecked", "Done"} =>
        LET S == Selected(proof, validator_list)
        IN  /\ decoded \subseteq S
            /\ SelectedAllDecode(proof, validator_list) =>
                  /\ decoded = S
                  /\ pks = PointsAt(S, validator_list)
                  /\ Len(pks) = Cardinality(S)
                  /\ result \in {"None", "NotEnoughSignatures"}
                  /\ result = "NotEnoughSignatures"
                        <=> 3 * Cardinality(S) <= 2 * Len(validator_list)
            /\ \A bm \in SelectorBitmaps :
                  SameBitsBelow(bm, proof.bitmap, Len(validator_list)) =>
                      LET r == extract_pks([proof EXCEPT !.bitmap = bm], validator_list)
                      IN  r.err = result /\ r.pks = pks /\ r.decoded = decoded

\* Nine validators with repeated keys and the one-byte bitmap 0xff: the
\* first eight are included and the ninth is a non-signer.
C12_Witness ==
    /\ pc = "QuorumChecked"
    /\ validator_list = LongList
    /\ proof.bitmap = <<255>>
    /\ Len(pks) = 8
    /\ decoded = 1..8

\* The second byte of the bitmap selects the ninth validator.
C12_SecondByteCase ==
    /\ pc = "Done"
    /\ validator_list = LongList
    /\ proof.bitmap = <<0, 128>>
    /\ pks = <<PkPoint(LongList[9].pub_key)>>
    /\ result = "NotEnoughSignatures"

\* The first selected position whose key does not decode.
FirstUndecodable(p, vl) ==
    LET bad == {i \in Selected(p, vl) : ~PkDecodes(vl[i].pub_key)}
    IN  CHOOSE i \in bad : \A j \in bad : i <= j

\* C13: with a matching block hash, a selected key that does not decode ends
\* verify_proof with the key-decoding error whatever the selected count and
\* the signature; the selected keys before it were decoded and none after
\* it, no quorum was evaluated and no signature examined; and no key whose
\* bit is unset is ever decoded, so that without a selected undecodable key
\* the selector returns no decoding error.
C13_BadSelectedKeyFailsAtOnce ==
    LET S == Selected(proof, validator_list)
    IN  /\ decoded \subseteq S
        /\ (/\ pc = "Done"
            /\ HashMatches(block, previous_state_root, proof)
            /\ ~SelectedAllDecode(proof, validator_list)) =>
               LET bad == FirstUndecodable(proof, validator_list)
               IN  /\ result = "BLST_BAD_ENCODING"
                   /\ decoded = {i \in S : i <= bad}
                   /\ pks = PointsAt({i \in S : i < bad}, validator_list)
                   /\ c_pk = <<>>
                   /\ sig = RawSignature(<<>>)
                   /\ passed = <<"hash">>
        /\ (/\ pc = "Done"
            /\ SelectedAllDecode(proof, validator_list)) =>
               ~(result = "BLST_BAD_ENCODING" /\ passed = <<"hash">>)

\* All three validators selected, a well-formed signature, and the first
\* key undecodable: the error is returned and the later keys are not decoded.
C13_Witness ==
    /\ pc = "Done"
    /\ result = "BLST_BAD_ENCODING"
    /\ Len(validator_list) = 3
    /\ Selected(proof, validator_list) = {1, 2, 3}
    /\ ~PkDecodes(validator_list[1].pub_key)
    /\ decoded = {1}
    /\ proof.signature.wf

\* An undecodable key whose bit is unset: the proof is accepted.
C13_UnselectedBadKeyCase ==
    /\ result = "Ok"
    /\ \E i \in DOMAIN validator_list : ~PkDecodes(validator_list[i].pub_key)

\* Bytes::cmp, the order of impl Ord for Validator: a is at most b in the
\* lexicographic order of byte strings.
RECURSIVE BytesLeq(_, _)
BytesLeq(a, b) ==
    IF a = <<>> THEN TRUE
    ELSE IF b = <<>> THEN FALSE
    ELSE IF Head(a) # Head(b) THEN Head(a) < Head(b)
    ELSE BytesLeq(Tail(a), Tail(b))

AscendingByPubKey(vl) ==
    \A i \in 1..(Len(vl) - 1) : BytesLeq(vl[i].pub_key, vl[i + 1].pub_key)

\* C14: once verify_proof has run the selector, the caller's validator_list
\* is in ascending order of pub_key (the model never changes the list, so it
\* is a permutation of the input), and the keys decoded are those the bitmap
\* selects in that order.
C14_ListSortedBySelector ==
    (pc \in {"QuorumChecked", "Aggregated", "SigDecoded", "Done"} /\ passed # <<>>) =>
        /\ AscendingByPubKey(validator_list)
        /\ decoded \subseteq Selected(proof, validator_list)

\* C15: for every block header the encoding step completes and produces
\* bytes, and a finished call of verify_proof has returned Ok or an error.
C15_EncodingNeverAborts ==
    /\ pc # "Start" => ~raw_proposal.panicked
    /\ pc = "Done" =>
          result \in {"Ok", "InvalidProofBlockHash", "NotEnoughSignatures",
                      "BLST_BAD_ENCODING", "BLST_VERIFY_FAIL",
                      "BLST_AGGR_TYPE_MISMATCH", "BLST_POINT_NOT_IN_GROUP"}

\* The errors of the BLS library.
CryptoErrors ==
    { "BLST_BAD_ENCODING", "BLST_VERIFY_FAIL", "BLST_AGGR_TYPE_MISMATCH",
      "BLST_POINT_NOT_IN_GROUP" }

\* Every cryptographic step succeeds: the selected keys are keys of the
\* group, and the signature is well formed and was made by exactly them over
\* the vote digest under DST.
CryptoSucceeds ==
    /\ pks # <<>>
    /\ \A i \in DOMAIN pks : pks[i] \in ValidPoints
    /\ proof.signature.wf
    /\ AggregatesSelected(proof.signature.signers, proof, validator_list)
    /\ proof.signature.msg = hash_vote
    /\ proof.signature.dst = DST

\* C16: verify_proof returns NotEnoughSignatures only from the quorum check
\* (nothing cryptographic was run and 3*k <= 2*n), and once the quorum is met
\* a call in which aggregation, signature decoding or verification fails
\* returns an error of the BLS library, never Ok, NotEnoughSignatures or
\* InvalidProofBlockHash.
C16_CryptoFailureIsItsOwnError ==
    pc = "Done" =>
        /\ result = "NotEnoughSignatures" =>
              /\ passed = <<"hash">>
              /\ c_pk = <<>>
              /\ sig = RawSignature(<<>>)
              /\ 3 * SelectedCount(proof, validator_list) <= 2 * Len(validator_list)
        /\ (Len(passed) >= 2 /\ passed[2] = "quorum") =>
              IF CryptoSucceeds THEN result = "Ok" ELSE result \in CryptoErrors

\* A quorum of keys and a well-formed signature that does not verify.
C16_Witness ==
    /\ pc = "Done"
    /\ passed = <<"hash", "quorum">>
    /\ proof.signature.wf
    /\ result = "BLST_VERIFY_FAIL"

\* A quorum with a malformed signature, and a quorum whose keys do not
\* aggregate.
C16_MalformedSignatureCase ==
    /\ pc = "Done"
    /\ passed = <<"hash", "quorum">>
    /\ ~proof.signature.wf
    /\ result = "BLST_BAD_ENCODING"

C16_AggregationFailureCase ==
    /\ pc = "Done"
    /\ passed = <<"hash", "quorum">>
    /\ result = "BLST_POINT_NOT_IN_GROUP"

\* C17: the encoding of a Vote is an RLP list of exactly four string items,
\* the encodings of height, round, vote_type and block_hash in this order,
\* and decoding it as the signer's Vote gives back the height, the round and
\* the block hash.
C17_VoteCodecRoundTrips ==
    /\ vote_pc \in {"Encoded", "Decoded"} =>
          LET h == RlpHeader(vote_raw)
              items == RlpItems(SubSeq(vote_raw, h.hdr + 1, h.hdr + h.len))
          IN  /\ h.ok /\ h.list
              /\ h.hdr + h.len = Len(vote_raw)
              /\ Len(items) = 4
              /\ \A i \in 1..4 : RlpAsData(items[i])
              /\ BeValue(items[1].data) = vote_in.height
              /\ BeValue(items[2].data) = vote_in.round
              /\ BeValue(items[3].data) = vote_in.vote_type
              /\ items[4].data = vote_in.block_hash
    /\ vote_pc = "Decoded" =>
          /\ vote_out.ok
          /\ vote_out.vote.height = vote_in.height
          /\ vote_out.vote.round = vote_in.round
          /\ vote_out.vote.block_hash = vote_in.block_hash

\* A vote whose height and round take several bytes, with a 32-byte hash.
C17_Witness ==
    /\ vote_pc = "Decoded"
    /\ vote_in.height = 65535
    /\ vote_in.round = 128
    /\ vote_in.block_hash = H256Of(255)
    /\ vote_out.ok
    /\ vote_out.vote = vote_in

\* No validator is selected: the list or the bitmap is empty, or every bit
\* of the bitmap is zero.
NothingSelected(p, vl) ==
    \/ vl = <<>>
    \/ p.bitmap = <<>>
    \/ \A i \in DOMAIN p.bitmap : p.bitmap[i] = 0

\* C18: whenever verify_proof has gone past the selector towards
\* AggregatePublicKey::aggregate, the selector returned at least one key;
\* and an input with a matching block hash and an empty validator list, an
\* empty bitmap or an all-zero bitmap is rejected with NotEnoughSignatures
\* and reaches neither aggregation nor verification.
C18_AggregateGetsKeys ==
    /\ (\/ pc \in {"QuorumChecked", "Aggregated", "SigDecoded"}
        \/ (pc = "Done" /\ Len(passed) >= 2)) =>
           pks # <<>>
    /\ (/\ pc = "Done"
        /\ HashMatches(block, previous_state_root, proof)
        /\ NothingSelected(proof, validator_list)) =>
           /\ result = "NotEnoughSignatures"
           /\ pks = <<>>
           /\ c_pk = <<>>
           /\ sig = RawSignature(<<>>)

\* The shortest list that reaches aggregation: one validator, selected.
C18_Witness ==
    /\ pc = "Aggregated"
    /\ Len(validator_list) = 1
    /\ Len(pks) = 1
    /\ c_pk = pks

\* The empty validator list, the empty bitmap and the all-zero bitmap, each
\* rejected by the quorum.
C18_EmptyListCase ==
    /\ pc = "Done" /\ passed = <<"hash">>
    /\ validator_list = <<>> /\ proof.bitmap # <<>>
    /\ result = "NotEnoughSignatures"

C18_EmptyBitmapCase ==
    /\ pc = "Done" /\ passed = <<"hash">>
    /\ validator_list # <<>> /\ proof.bitmap = <<>>
    /\ result = "NotEnoughSignatures"

C18_ZeroBitmapCase ==
    /\ pc = "Done" /\ passed = <<"hash">>
    /\ validator_list # <<>> /\ proof.bitmap = <<0>>
    /\ result = "NotEnoughSignatures"

\* The weights a validator can be given.
OtherWeights == {0, 1, 10}

\* The lists that differ from vl in the weights of one validator only, or
\* that give every validator the same weights.
Reweighings(vl) ==
    { [vl EXCEPT ![i].propose_weight = pw, ![i].vote_weight = vw] :
      i \in DOMAIN vl, pw \in OtherWeights, vw \in OtherWeights }
    \cup
    { [i \in DOMAIN vl |-> [vl[i] EXCEPT !.propose_weight = pw, !.vote_weight = vw]] :
      pw \in OtherWeights, vw \in OtherWeights }

\* C19: verify_proof returns the same result on two inputs that differ only
\* in the propose_weight and vote_weight of the validators.
C19_WeightsIgnored ==
    pc = "Done" =>
        \A vl \in Reweighings(validator_list) :
            VerifyProofResult(block, previous_state_root, vl, proof) = result

\* One selected validator holds ten of the twelve units of vote weight and
\* is one of three by count: the proof is rejected for want of signers.
C19_Witness ==
    /\ pc = "Done"
    /\ Len(validator_list) = 3
    /\ Selected(proof, validator_list) = {1}
    /\ validator_list[1].vote_weight = 10
    /\ validator_list[2].vote_weight = 1
    /\ validator_list[3].vote_weight = 1
    /\ result = "NotEnoughSignatures"

\* The value of a hex digit in either case, or -1.
NibbleOf(c) ==
    LET lower == <<"0", "1", "2", "3", "4", "5", "6", "7", "8", "9",
                   "a", "b", "c", "d", "e", "f">>
        upper == <<"0", "1", "2", "3", "4", "5", "6", "7", "8", "9",
                   "A", "B", "C", "D", "E", "F">>
    IN  IF \E i \in 1..16 : lower[i] = c \/ upper[i] = c
        THEN (CHOOSE i \in 1..16 : lower[i] = c \/ upper[i] = c) - 1
        ELSE -1

\* A string of at most sixteen hex digits.
IsHex(ds) == Len(ds) <= 16 /\ \A i \in DOMAIN ds : NibbleOf(ds[i]) # -1

\* The eight bytes of the number a string of at most sixteen hex digits
\* writes, most significant digit first.
WordOfDigits(ds) ==
    LET nib(i) == IF i <= 16 - Len(ds) THEN 0 ELSE NibbleOf(ds[i - (16 - Len(ds))])
    IN  [j \in 1..8 |-> nib(2 * j - 1) * 16 + nib(2 * j)]

HasPrefix(s) == Len(s) >= 2 /\ s[1] = "0" /\ s[2] = "x"

\* C20: deserialize_hex_u64 returns the number a "0x" string of hex digits
\* writes, for an even and an odd number of digits and for "0x0"; it rejects
\* a string that does not start with "0x"; and the string serialize_uint
\* writes for a u64 reads back as that u64.
C20_HexU64RoundTrips ==
    hex_pc = "Done" =>
        /\ (HasPrefix(hex_str) /\ IsHex(SubSeq(hex_str, 3, Len(hex_str)))) =>
               /\ hex_out.ok
               /\ hex_out.value = WordOfDigits(SubSeq(hex_str, 3, Len(hex_str)))
        /\ ~HasPrefix(hex_str) => ~hex_out.ok
        /\ hex_in.given =>
               /\ HasPrefix(hex_str)
               /\ hex_out.ok
               /\ hex_out.value = hex_in.value

\* 0x233, of test_deserialize_hex_u64: serialize_uint writes it with an odd
\* number of digits and it reads back.
C20_Witness ==
    /\ hex_pc = "Done"
    /\ hex_in.given
    /\ hex_in.value = <<0, 0, 0, 0, 0, 0, 2, 51>>
    /\ hex_str = <<"0", "x", "2", "3", "3">>
    /\ hex_out = [ok |-> TRUE, value |-> hex_in.value]

\* A string without the prefix is rejected, and 2^64 - 1 reads back.
C20_NoPrefixCase ==
    /\ hex_pc = "Done"
    /\ hex_str = <<"1", "2">>
    /\ ~hex_out.ok

C20_MaxValueCase ==
    /\ hex_pc = "Done"
    /\ hex_in.given
    /\ hex_in.value = [i \in 1..8 |-> 255]
    /\ hex_out.ok
    /\ hex_out.value = hex_in.value

====
